---- MODULE Spec2Model ----
(***************************************************************************)
(* The research / generate / review workflow of src/app.py: the AgentState *)
(* record, the three graph nodes, the routing function after review, the   *)
(* graph wiring, and the caller's loop that collects the streamed          *)
(* per-node updates into the list `states`.                                *)
(*                                                                         *)
(* Texts are sequences of tokens.  A token stands for a run of characters  *)
(* that the code never splits: "BACKTICKS" is the run of three back-ticks  *)
(* that opens or closes a code fence, "hcl" the language tag, "\n" a line  *)
(* feed, " " a blank; the other tokens are words.                          *)
(***************************************************************************)
EXTENDS Integers, Sequences, FiniteSets, TLC

VARIABLES
    task,             \* AgentState.task
    content,          \* AgentState.content
    code,             \* AgentState.code
    critique,         \* AgentState.critique
    revision_number,  \* AgentState.revision_number
    max_revisions,    \* AgentState.max_revisions
    pc,               \* the node the graph runs next, or END
    error,            \* the exception that left graph.stream, or "none"
    states,           \* the caller's list of streamed updates
    calls,            \* how often each node / external client was called
    gen_response,     \* response.content of the latest model.invoke in code_gen_node
    gen_prompt,       \* the prompt code_gen_node built last
    review_prompt,    \* the prompt code_reviewer_node built last
    search_log,       \* the result lists tavily.search returned, in call order
    runs,             \* two runs started side by side: the state of each
    heap              \* the list objects the two runs' content fields refer to

state_vars == <<task, content, code, critique, revision_number, max_revisions>>
\* what the nodes sent to and got from the clients last
io_vars == <<gen_response, gen_prompt, review_prompt, search_log>>
\* the two runs started side by side
two_vars == <<runs, heap>>
vars == <<task, content, code, critique, revision_number, max_revisions,
          pc, error, states, calls, gen_response, gen_prompt, review_prompt,
          search_log, runs, heap>>

---------------------------------------------------------------------------
(* Bounds of the model *)

\* largest max_revisions a run is started with
MaxMaxRevisions == 3
\* longest Generate response of the extraction specification, in tokens
MaxLen == 6
\* max_revisions of the first of the two runs started side by side
TwoRunRevisions == 1

(* Program constants *)

\* tavily.search(query=q, max_results=2)
max_results == 2
\* "max_revisions": 3 of initial_state
DefaultMaxRevisions == 3
\* RESEARCH_PROMPT: "Craft exactly three concise search queries"
PromptedQueries == 3

END == "__end__"

TheTask == <<"Create", "an", "S3", "bucket">>
TheOtherTask == <<"Create", "an", "EC2", "instance">>

---------------------------------------------------------------------------
(* Text helpers: Python's `in`, str.strip and re.search on token sequences *)

\* sub in s
Contains(sub, s) ==
    \E i \in 0..(Len(s) - Len(sub)) : SubSeq(s, i + 1, i + Len(sub)) = sub

Whitespace == {" ", "\n", "\t", "\r"}

RECURSIVE LStrip(_)
LStrip(s) ==
    IF s # <<>> /\ Head(s) \in Whitespace THEN LStrip(Tail(s)) ELSE s

RECURSIVE RStrip(_)
RStrip(s) ==
    IF s # <<>> /\ s[Len(s)] \in Whitespace
    THEN RStrip(SubSeq(s, 1, Len(s) - 1))
    ELSE s

\* s.strip()
Strip(s) == RStrip(LStrip(s))

\* the literal parts of the pattern ```hcl\n(.*?)```
FenceOpen == <<"BACKTICKS", "hcl", "\n">>
FenceClose == <<"BACKTICKS">>

MatchesAt(pat, s, i) ==
    i + Len(pat) - 1 <= Len(s) /\ SubSeq(s, i, i + Len(pat) - 1) = pat

\* a greedy group (.*) in place of the lazy one: the longest run
GreedyClose(s, i) ==
    LET from == i + Len(FenceOpen)
        ends == {j \in from..Len(s) : MatchesAt(FenceClose, s, j)}
    IN  IF ends = {} THEN 0 ELSE CHOOSE j \in ends : \A k \in ends : j >= k

\* the lazy group (.*?) under DOTALL: the shortest run after the opener at i
\* that is followed by the closing back-ticks; 0 when there is none
LazyClose(s, i) ==
    LET from == i + Len(FenceOpen)
        ends == {j \in from..Len(s) : MatchesAt(FenceClose, s, j)}
    IN  IF ends = {} THEN 0 ELSE CHOOSE j \in ends : \A k \in ends : j <= k

\* re.search(r'```hcl\n(.*?)```', s, re.DOTALL): the leftmost start at which
\* the whole pattern matches; group(1) is what the lazy group took
re_search(s) ==
    LET starts == {i \in 1..Len(s) : MatchesAt(FenceOpen, s, i) /\ LazyClose(s, i) # 0}
    IN  IF starts = {}
        THEN [found |-> FALSE, group1 |-> <<>>]
        ELSE LET i == CHOOSE x \in starts : \A y \in starts : x <= y
             IN  [found |-> TRUE,
                  group1 |-> SubSeq(s, i + Len(FenceOpen), LazyClose(s, i) - 1)]

\* the extraction keeping the response as it is when no fence is found
ExtractCode_fallback_untrimmed(resp) ==
    LET match == re_search(resp)
    IN  IF match.found THEN Strip(match.group1) ELSE resp

\* the code extraction of code_gen_node
ExtractCode(resp) ==
    LET match == re_search(resp)
    IN  IF match.found THEN Strip(match.group1) ELSE Strip(resp)

---------------------------------------------------------------------------
(* What the external clients can answer *)

\* queries the completion may return: each names Terraform and an AWS service
QueryPool == <<"Terraform S3", "Terraform IAM", "Terraform VPC", "Terraform EC2">>

\* model.with_structured_output(Queries).invoke(messages).queries: Queries
\* declares List[str], so the list may be empty, or longer than the three
\* queries the prompt asks for
DecodedQueries == {SubSeq(QueryPool, 1, n) : n \in 0..Len(QueryPool)}

\* tavily.search(query=q, max_results=2)['results'] when the provider finds n
\* results: each result is a record with the snippet under 'content'; the
\* i-th snippet found for q is <<q, i>>
tavily_search(q, n) == [i \in 1..n |-> [content |-> <<q, i>>]]

\* the result lists the provider may give for the queries, one per query
SearchResponses(queries) ==
    {[k \in 1..Len(queries) |-> tavily_search(queries[k], counts[k])] :
        counts \in [1..Len(queries) -> 0..max_results]}

\* response.content of model.invoke in code_gen_node
GenResponses ==
    {<<"Here", "\n", "BACKTICKS", "hcl", "\n", "bucket", "\n", "BACKTICKS">>,
     <<"bucket_with_tags", "\n">>}

\* response.content of model.invoke in code_reviewer_node
ReviewResponses ==
    {<<"The", " ", "code", " ", "is", " ", "valid", ".">>,
     <<"Add", " ", "tags", ".">>,
     <<>>}

\* "The code is valid"
Approval == <<"The", " ", "code", " ", "is", " ", "valid">>

---------------------------------------------------------------------------
(* The nodes *)

\* for q in queries.queries: for r in response['results']: content.append(r['content'])
RECURSIVE SearchLoop(_, _, _)
SearchLoop(local, results, k) ==
    IF k > Len(results)
    THEN local
    ELSE SearchLoop(local \o [i \in 1..Len(results[k]) |-> results[k][i].content],
                    results, k + 1)

\* research_node with content.insert(0, ...) for content.append(...)
research_node_inserts_at_front(st_content, results) ==
    LET appended == SearchLoop(st_content, results, 1)
    IN  [content |-> [i \in 1..Len(appended) |-> appended[Len(appended) + 1 - i]]]

\* research_node: the update it returns
research_node(st_content, results) ==
    [content |-> SearchLoop(st_content, results, 1)]

\* `content = state['content']`: the local list is always the state's own
AlwaysAliasesState(st_content) == TRUE

\* `content = state['content'] or []`: the local list is the state's own list
\* object unless that list is empty, and then it is a fresh one
AliasesState(st_content) == st_content # <<>>

\* code_gen_node counting a revision twice
code_gen_node_counts_twice(st_revision_number, resp) ==
    [code |-> ExtractCode(resp), revision_number |-> st_revision_number + 2]

\* code_gen_node: the update it returns for the response resp
code_gen_node(st_revision_number, resp) ==
    [code |-> ExtractCode(resp), revision_number |-> st_revision_number + 1]

\* code_reviewer_node returning the response as the code as well
code_reviewer_node_rewrites_code(resp) == [critique |-> resp, code |-> resp]

\* code_reviewer_node: the update it returns for the response resp
code_reviewer_node(resp) == [critique |-> resp]

\* route_after_review granting one revision more
route_one_more_revision(st_revision_number, st_max_revisions, st_critique) ==
    IF st_revision_number > st_max_revisions + 1 \/ Contains(Approval, st_critique)
    THEN END
    ELSE "code_gen"

\* route_after_review with >= in the budget check
route_one_revision_less(st_revision_number, st_max_revisions, st_critique) ==
    IF st_revision_number >= st_max_revisions \/ Contains(Approval, st_critique)
    THEN END
    ELSE "code_gen"

\* route_after_review comparing the critique with == instead of `in`
route_approval_by_equality(st_revision_number, st_max_revisions, st_critique) ==
    IF st_revision_number > st_max_revisions \/ st_critique = Approval
    THEN END
    ELSE "code_gen"

\* route_after_review ending the run on an empty critique as well
route_ends_on_empty_critique(st_revision_number, st_max_revisions, st_critique) ==
    IF st_revision_number > st_max_revisions \/ Contains(Approval, st_critique)
       \/ st_critique = <<>>
    THEN END
    ELSE "code_gen"

\* route_after_review sending an unapproved artifact to the reviewer again
route_back_to_reviewer(st_revision_number, st_max_revisions, st_critique) ==
    IF st_revision_number > st_max_revisions \/ Contains(Approval, st_critique)
    THEN END
    ELSE "code_reviewer"

\* route_after_review looking for the approval whatever its letter case
route_case_insensitive(st_revision_number, st_max_revisions, st_critique) ==
    LET lower(s) == [i \in DOMAIN s |->
                        CASE s[i] \in {"The", "THE"} -> "the"
                          [] s[i] \in {"Code", "CODE"} -> "code"
                          [] s[i] = "IS" -> "is"
                          [] s[i] = "VALID" -> "valid"
                          [] OTHER -> s[i]]
    IN  IF st_revision_number > st_max_revisions
           \/ Contains(lower(Approval), lower(st_critique))
        THEN END
        ELSE "code_gen"

\* route_after_review
route_after_review(st_revision_number, st_max_revisions, st_critique) ==
    IF st_revision_number > st_max_revisions \/ Contains(Approval, st_critique)
    THEN END
    ELSE "code_gen"

\* the wiring with the research node sent to the reviewer
add_edge_research_to_reviewer == [research |-> "code_reviewer", code_gen |-> "code_reviewer"]

\* the wiring with the generator sent to END, the reviewer left out
add_edge_code_gen_to_end == [research |-> "code_gen", code_gen |-> END]

\* builder.set_entry_point / builder.add_edge
entry_point == "research"
add_edge == [research |-> "code_gen", code_gen |-> "code_reviewer"]

\* "\n\n".join(state['content'] or [])
RECURSIVE Join(_)
Join(snippets) ==
    IF snippets = <<>> THEN <<>>
    ELSE IF Len(snippets) = 1 THEN <<snippets[1]>>
    ELSE <<snippets[1], "\n\n">> \o Join(Tail(snippets))

\* code_gen_node appending the critique block without `if critique:`
code_gen_prompt_always_block(st_task, st_content, st_critique) ==
    [template |-> "CODE_GEN_PROMPT", task |-> st_task, content |-> Join(st_content),
     tail |-> <<"\n", "\n", "Previous critique: ">> \o st_critique
              \o <<"\n", "Please address the issues mentioned.">>]

\* the prompt code_gen_node builds: the template with task and joined content,
\* and after it, `if critique:`, the block that quotes the critique
code_gen_prompt(st_task, st_content, st_critique) ==
    [template |-> "CODE_GEN_PROMPT",
     task |-> st_task,
     content |-> Join(st_content),
     tail |-> IF st_critique # <<>>
              THEN <<"\n", "\n", "Previous critique: ">> \o st_critique
                   \o <<"\n", "Please address the issues mentioned.">>
              ELSE <<>>]

\* code_reviewer_node formatting its prompt with the task for the code
code_review_prompt_without_code(st_task, st_code) ==
    [template |-> "CODE_REVIEW_PROMPT", task |-> st_task, code |-> st_task]

\* the prompt code_reviewer_node builds
code_review_prompt(st_task, st_code) ==
    [template |-> "CODE_REVIEW_PROMPT", task |-> st_task, code |-> st_code]

NoPrompt == [template |-> "none"]

\* the graph writes the fields a node returned and keeps the others
Merge(update, field, old) ==
    IF field \in DOMAIN update THEN update[field] ELSE old

\* states.append(s) for the streamed update of a node
Snapshot(node, update) == [node |-> node, update |-> update]

---------------------------------------------------------------------------
(* The run *)

initial_state ==
    [task |-> TheTask, content |-> <<>>, code |-> <<>>, critique |-> <<>>,
     revision_number |-> 0]

NoCalls ==
    [research |-> 0, code_gen |-> 0, code_reviewer |-> 0,
     structured |-> 0, search |-> 0, invoke |-> 0]

Init ==
    /\ task = initial_state.task
    /\ content = initial_state.content
    /\ code = initial_state.code
    /\ critique = initial_state.critique
    /\ revision_number = initial_state.revision_number
    /\ max_revisions \in 1..MaxMaxRevisions
    /\ pc = entry_point
    /\ error = "none"
    /\ states = <<>>
    /\ calls = NoCalls
    /\ gen_response = <<>>
    /\ gen_prompt = NoPrompt
    /\ review_prompt = NoPrompt
    /\ search_log = <<>>
    /\ runs = <<>>
    /\ heap = <<>>

\* a run that goes on after an exception
RunningAfterError(node) == pc = node

\* graph.stream goes on only while no node has raised
Running(node) == pc = node /\ error = "none"

\* the state after the graph has written a node's update
Written(update) ==
    /\ task' = Merge(update, "task", task)
    /\ content' = Merge(update, "content", content)
    /\ code' = Merge(update, "code", code)
    /\ critique' = Merge(update, "critique", critique)
    /\ revision_number' = Merge(update, "revision_number", revision_number)
    /\ max_revisions' = Merge(update, "max_revisions", max_revisions)

\* research_node runs to its end
Research ==
    /\ Running("research")
    /\ \E queries \in DecodedQueries : \E results \in SearchResponses(queries) :
        LET update == research_node(content, results)
        IN  /\ Written(update)
            /\ states' = Append(states, Snapshot("research", update))
            /\ search_log' = search_log \o results
            /\ calls' = [calls EXCEPT !.research = @ + 1, !.structured = @ + 1,
                                      !.search = @ + Len(queries)]
    /\ pc' = add_edge[pc]
    /\ UNCHANGED <<error, gen_response, gen_prompt, review_prompt, two_vars>>

\* the structured decoding in research_node raises
ResearchDecodingError ==
    /\ Running("research")
    /\ error' = "DecodingError"
    /\ calls' = [calls EXCEPT !.research = @ + 1, !.structured = @ + 1]
    /\ UNCHANGED <<state_vars, pc, states, io_vars, two_vars>>

\* the k-th tavily.search of research_node raises
ResearchSearchError ==
    /\ Running("research")
    /\ \E queries \in DecodedQueries : \E k \in 1..Len(queries) :
       \E results \in SearchResponses(SubSeq(queries, 1, k - 1)) :
        /\ content' = IF AliasesState(content)
                      THEN research_node(content, results).content
                      ELSE content
        /\ search_log' = search_log \o results
        /\ calls' = [calls EXCEPT !.research = @ + 1, !.structured = @ + 1,
                                  !.search = @ + k]
    /\ error' = "ProviderError"
    /\ UNCHANGED <<task, code, critique, revision_number, max_revisions,
                   pc, states, gen_response, gen_prompt, review_prompt, two_vars>>

\* code_gen_node runs to its end on the response resp
CodeGenWith(resp) ==
    /\ Running("code_gen")
    /\ gen_prompt' = code_gen_prompt(task, content, critique)
    /\ LET update == code_gen_node(revision_number, resp)
       IN  /\ Written(update)
           /\ states' = Append(states, Snapshot("code_gen", update))
    /\ gen_response' = resp
    /\ calls' = [calls EXCEPT !.code_gen = @ + 1, !.invoke = @ + 1]
    /\ pc' = add_edge[pc]
    /\ UNCHANGED <<error, review_prompt, search_log, two_vars>>

CodeGen == \E resp \in GenResponses : CodeGenWith(resp)

\* model.invoke in code_gen_node raises
CodeGenError ==
    /\ Running("code_gen")
    /\ gen_prompt' = code_gen_prompt(task, content, critique)
    /\ error' = "ProviderError"
    /\ calls' = [calls EXCEPT !.code_gen = @ + 1, !.invoke = @ + 1]
    /\ UNCHANGED <<state_vars, pc, states, gen_response, review_prompt,
                   search_log, two_vars>>

\* code_reviewer_node runs to its end on the response resp, then the
\* conditional edge is taken on the state the graph has written
CodeReviewerWith(resp) ==
    /\ Running("code_reviewer")
    /\ review_prompt' = code_review_prompt(task, code)
    /\ LET update == code_reviewer_node(resp)
       IN  /\ Written(update)
           /\ states' = Append(states, Snapshot("code_reviewer", update))
    /\ pc' = route_after_review(revision_number', max_revisions', critique')
    /\ calls' = [calls EXCEPT !.code_reviewer = @ + 1, !.invoke = @ + 1]
    /\ UNCHANGED <<error, gen_response, gen_prompt, search_log, two_vars>>

CodeReviewer == \E resp \in ReviewResponses : CodeReviewerWith(resp)

\* model.invoke in code_reviewer_node raises
CodeReviewerError ==
    /\ Running("code_reviewer")
    /\ review_prompt' = code_review_prompt(task, code)
    /\ error' = "ProviderError"
    /\ calls' = [calls EXCEPT !.code_reviewer = @ + 1, !.invoke = @ + 1]
    /\ UNCHANGED <<state_vars, pc, states, gen_response, gen_prompt,
                   search_log, two_vars>>

Next ==
    \/ Research
    \/ ResearchDecodingError
    \/ ResearchSearchError
    \/ CodeGen
    \/ CodeGenError
    \/ CodeReviewer
    \/ CodeReviewerError

Spec == Init /\ [][Next]_vars

\* graph.stream keeps running the next node until END or an exception
FairSpec == Spec /\ WF_vars(Next)

---------------------------------------------------------------------------
(* The extraction specification: code_gen_node applied to every response   *)
(* of at most MaxLen tokens, from the state a run is in after a Research   *)
(* that found nothing.                                                     *)

Alphabet == {"BACKTICKS", "hcl", "\n", " ", "x"}

BoundedTexts == UNION {[1..n -> Alphabet] : n \in 0..MaxLen}

ExtractInit ==
    /\ task = initial_state.task
    /\ content = initial_state.content
    /\ code = initial_state.code
    /\ critique = initial_state.critique
    /\ revision_number = initial_state.revision_number
    /\ max_revisions = DefaultMaxRevisions
    /\ pc = add_edge[entry_point]
    /\ error = "none"
    /\ states = <<Snapshot("research", research_node(initial_state.content, <<>>))>>
    /\ calls = [NoCalls EXCEPT !.research = 1, !.structured = 1]
    /\ gen_response = <<>>
    /\ gen_prompt = NoPrompt
    /\ review_prompt = NoPrompt
    /\ search_log = <<>>
    /\ runs = <<>>
    /\ heap = <<>>

ExtractNext == Running("code_gen") /\ \E resp \in BoundedTexts : CodeGenWith(resp)

ExtractSpec == ExtractInit /\ [][ExtractNext]_vars

---------------------------------------------------------------------------
(* The routing specification: route_after_review applied, after a Review,  *)
(* to every revision_number a run can be at and to critiques that contain, *)
(* nearly contain or do not contain the approval.                          *)

RouteCritiques ==
    {Approval,
     Approval \o <<".">>,
     <<"Yes", ",", " ">> \o Approval \o <<" ", "now", ".">>,
     <<"the", " ", "code", " ", "is", " ", "valid">>,
     <<"THE", " ", "CODE", " ", "IS", " ", "VALID">>,
     <<"The", " ", "Code", " ", "is", " ", "valid">>,
     <<"The", " ", "code", " ", "is", " ", "invalid">>,
     <<"The", " ", "code", " ", "is", " ", "not", " ", "valid">>,
     <<"The", " ", " ", "code", " ", "is", " ", "valid">>,
     <<"The", "\n", "code", " ", "is", " ", "valid">>,
     <<"The", "code", "is", "valid">>,
     <<"The", " ", "code", " ", "is">>,
     <<"code", " ", "is", " ", "valid">>,
     <<"Add", " ", "tags", ".">>,
     <<>>}

\* the snapshots of a run that found nothing in Research and is after its
\* n-th Generate call, every Review before having asked for tags
RECURSIVE History(_)
History(n) ==
    IF n = 0
    THEN <<Snapshot("research", research_node(initial_state.content, <<>>))>>
    ELSE (IF n = 1
          THEN History(0)
          ELSE Append(History(n - 1),
                      Snapshot("code_reviewer",
                               code_reviewer_node(<<"Add", " ", "tags", ".">>))))
         \o <<Snapshot("code_gen",
                       code_gen_node(n - 1, <<"bucket_with_tags", "\n">>))>>

RouteInit ==
    /\ task = initial_state.task
    /\ content = initial_state.content
    /\ max_revisions \in 1..MaxMaxRevisions
    /\ revision_number \in 1..(max_revisions + 1)
    /\ code = code_gen_node(revision_number - 1, <<"bucket_with_tags", "\n">>).code
    /\ critique = IF revision_number = 1
                  THEN initial_state.critique
                  ELSE <<"Add", " ", "tags", ".">>
    /\ pc = "code_reviewer"
    /\ error = "none"
    /\ states = History(revision_number)
    /\ calls = [NoCalls EXCEPT !.research = 1, !.structured = 1,
                               !.code_gen = revision_number,
                               !.code_reviewer = revision_number - 1,
                               !.invoke = 2 * revision_number - 1]
    /\ gen_response = <<"bucket_with_tags", "\n">>
    /\ gen_prompt = code_gen_prompt(task, content, critique)
    /\ review_prompt = IF revision_number = 1
                       THEN NoPrompt
                       ELSE code_review_prompt(task, code)
    /\ search_log = <<>>
    /\ runs = <<>>
    /\ heap = <<>>

RouteNext == Running("code_reviewer") /\ \E resp \in RouteCritiques : CodeReviewerWith(resp)

RouteSpec == RouteInit /\ [][RouteNext]_vars

---------------------------------------------------------------------------
(* Two runs side by side.  Each run has its own AgentState; a content field *)
(* refers to a list object of the heap, so that a list two runs shared      *)
(* would show.  The steps of the two runs interleave in any order.          *)

\* a list display `[]` of the code, as one module-level list made once
new_list_module_level(h) == 1

\* a list display `[]` of the code: a new object each time it is evaluated
new_list(h) == Len(h) + 1

\* the heap holding the list id, empty if it is new
Allocated(h, id) == IF id > Len(h) THEN Append(h, <<>>) ELSE h

\* initial_state of a run for task t, with its own "content": []
start_run(h, t, m) ==
    LET id == new_list(h)
    IN  [heap |-> Allocated(h, id),
         st |-> [task |-> t, content |-> id, code |-> <<>>, critique |-> <<>>,
                 revision_number |-> 0, max_revisions |-> m,
                 pc |-> entry_point, inputs |-> <<>>]]

\* research_node on the heap: `state['content'] or []` is the state's list
\* or a new one, the snippets are appended to it and it is returned
research_on_heap(h, st, results) ==
    LET local == IF AliasesState(h[st.content]) THEN st.content ELSE new_list(h)
        h1 == Allocated(h, local)
    IN  [heap |-> [h1 EXCEPT ![local] = research_node(h1[local], results).content],
         st |-> [st EXCEPT !.content = local, !.pc = add_edge[st.pc],
                           !.inputs = Append(@, results)]]

code_gen_on_heap(h, st, resp) ==
    LET update == code_gen_node(st.revision_number, resp)
    IN  [heap |-> h,
         st |-> [st EXCEPT !.code = update.code,
                           !.revision_number = update.revision_number,
                           !.pc = add_edge[st.pc],
                           !.inputs = Append(@, resp)]]

code_reviewer_on_heap(h, st, resp) ==
    LET update == code_reviewer_node(resp)
    IN  [heap |-> h,
         st |-> [st EXCEPT !.critique = update.critique,
                           !.pc = route_after_review(st.revision_number,
                                                     st.max_revisions, update.critique),
                           !.inputs = Append(@, resp)]]

\* the node the run is at, run on what the clients answered
RunStep(h, st, input) ==
    CASE st.pc = "research" -> research_on_heap(h, st, input)
      [] st.pc = "code_gen" -> code_gen_on_heap(h, st, input)
      [] st.pc = "code_reviewer" -> code_reviewer_on_heap(h, st, input)

\* the queries of a run of the two
TwoRunQueries == {<<>>, <<QueryPool[1]>>}

TwoInit ==
    /\ task = initial_state.task
    /\ content = initial_state.content
    /\ code = initial_state.code
    /\ critique = initial_state.critique
    /\ revision_number = initial_state.revision_number
    /\ max_revisions = DefaultMaxRevisions
    /\ pc = entry_point
    /\ error = "none"
    /\ states = <<>>
    /\ calls = NoCalls
    /\ gen_response = <<>>
    /\ gen_prompt = NoPrompt
    /\ review_prompt = NoPrompt
    /\ search_log = <<>>
    /\ LET first == start_run(<<>>, TheTask, TwoRunRevisions)
           second == start_run(first.heap, TheOtherTask, 0)
       IN  /\ runs = <<first.st, second.st>>
           /\ heap = second.heap

Stepped(r, input) ==
    LET after == RunStep(heap, runs[r], input)
    IN  /\ heap' = after.heap
        /\ runs' = [runs EXCEPT ![r] = after.st]
        /\ UNCHANGED <<state_vars, pc, error, states, calls, io_vars>>

TwoResearch ==
    \E r \in DOMAIN runs :
        /\ runs[r].pc = "research"
        /\ \E queries \in TwoRunQueries : \E results \in SearchResponses(queries) :
            Stepped(r, results)

TwoCodeGen ==
    \E r \in DOMAIN runs :
        /\ runs[r].pc = "code_gen"
        /\ \E resp \in GenResponses : Stepped(r, resp)

TwoCodeReviewer ==
    \E r \in DOMAIN runs :
        /\ runs[r].pc = "code_reviewer"
        /\ \E resp \in ReviewResponses : Stepped(r, resp)

TwoNext == TwoResearch \/ TwoCodeGen \/ TwoCodeReviewer

TwoRunSpec == TwoInit /\ [][TwoNext]_vars

\* a run's state with its content list read from the heap
View(h, st) == [st EXCEPT !.content = h[st.content]]

\* the run for task t alone, on a heap of its own, given the answers `inputs`
RECURSIVE Replay(_, _, _)
Replay(cur, inputs, k) ==
    IF k > Len(inputs)
    THEN cur
    ELSE Replay(RunStep(cur.heap, cur.st, inputs[k]), inputs, k + 1)

Alone(t, m, inputs) ==
    LET end == Replay(start_run(<<>>, t, m), inputs, 1)
    IN  View(end.heap, end.st)

---------------------------------------------------------------------------
(* What the caller and the claims read off a run *)

\* the number of streamed updates of a node: its completed calls
Completed(node) == Cardinality({i \in DOMAIN states : states[i].node = node})

\* the run ended through END, without an exception
Terminated == pc = END /\ error = "none"

\* the critiques of the completed Review calls
Critiques ==
    {states[i].update.critique : i \in {k \in DOMAIN states : states[k].node = "code_reviewer"}}

NeverApproved == \A c \in Critiques : ~Contains(Approval, c)

\* states[-2] and states[-1] of the caller
second_last_state == states[Len(states) - 1]
final_state == states[Len(states)]

---------------------------------------------------------------------------
(* The claims *)

\* C1: from revision_number = 0 and max_revisions >= 1, a run makes at most
\* max_revisions + 1 Generate calls whatever the critiques are, and a run in
\* which no external call fails reaches END.
C1_GenerateCallsBounded ==
    /\ [](calls.code_gen <= max_revisions + 1)
    /\ ([](error = "none") => <>Terminated)

C1_Witness ==
    Terminated /\ calls.code_gen = max_revisions + 1 /\ max_revisions = MaxMaxRevisions

\* C2: revision_number starts at 0, grows by exactly 1 with each completed
\* Generate call, is changed by no other step and never decreases; so it
\* equals the number of completed Generate calls, however many Review calls
\* there were.
C2_RevisionNumberCountsGenerate ==
    /\ revision_number = 0
    /\ [](revision_number = Completed("code_gen"))
    /\ [][/\ revision_number' >= revision_number
          /\ Completed("code_gen")' = Completed("code_gen") + 1
                => revision_number' = revision_number + 1
          /\ Completed("code_gen")' = Completed("code_gen")
                => revision_number' = revision_number]_vars

C2_Witness ==
    revision_number = 3 /\ Completed("code_reviewer") = 2 /\ pc = "code_reviewer"

\* C3: a Review that returns a critique containing "The code is valid" ends
\* the run at the routing that follows, whatever revision_number and
\* max_revisions are, and no Generate call follows; when the first Review
\* approves, the run has made exactly 1 Generate call and 1 Review call.
C3_ApprovalTerminates ==
    /\ [][(/\ Completed("code_reviewer")' = Completed("code_reviewer") + 1
           /\ Contains(Approval, critique'))
            => pc' = END]_vars
    /\ [][pc = END => (pc' = END /\ calls'.code_gen = calls.code_gen)]_vars
    /\ []((Len(states) >= 3 /\ Contains(Approval, states[3].update.critique))
            => /\ Terminated
               /\ Completed("code_gen") = 1 /\ calls.code_gen = 1
               /\ Completed("code_reviewer") = 1 /\ calls.code_reviewer = 1)

C3_Witness ==
    /\ Terminated
    /\ Contains(Approval, critique)
    /\ revision_number = 1
    /\ max_revisions = DefaultMaxRevisions

\* C4: when no critique of the run contains the approval substring, the run
\* ends through the budget check after exactly max_revisions + 1 Generate
\* calls, with revision_number = max_revisions + 1: not at max_revisions and
\* not later.
C4_BudgetExhaustion ==
    (Terminated /\ NeverApproved)
        => /\ Completed("code_gen") = max_revisions + 1
           /\ calls.code_gen = max_revisions + 1
           /\ revision_number = max_revisions + 1

C4_Witness ==
    /\ Terminated /\ NeverApproved
    /\ max_revisions = DefaultMaxRevisions
    /\ Completed("code_gen") = DefaultMaxRevisions + 1

\* the edges of the state machine {Research, Generate, Review, Terminated}
Edges ==
    {<<"research", "code_gen">>, <<"code_gen", "code_reviewer">>,
     <<"code_reviewer", "code_gen">>, <<"code_reviewer", END>>}

\* C5: the run starts in Research; every completed step moves along an edge
\* Research -> Generate, Generate -> Review, Review -> Generate or Terminated;
\* Terminated has no successor; Research runs once and is never re-entered.
C5_StateMachine ==
    /\ pc = "research"
    /\ [][/\ pc # END
          /\ pc' # pc => <<pc, pc'>> \in Edges
          /\ pc' = "research" => pc = "research"
          /\ Len(states') # Len(states)
                => /\ pc' # pc
                   /\ Len(states') = Len(states) + 1
                   /\ states'[Len(states')].node = pc]_vars
    /\ [](Completed("research") <= 1 /\ calls.research <= 1)
    /\ [](pc # "research" => Completed("research") = 1)

C5_Witness ==
    Terminated /\ Len(states) >= 5

\* C6: at normal termination the caller's list has at least three updates,
\* the last is the reviewer's and the one before it is the generator's and
\* carries code, on the approval path and on the budget path alike; the
\* caller's states[-2]["code_gen"] never misses.
C6_SecondLastIsGenerate ==
    Terminated
        => /\ Len(states) >= 3
           /\ final_state.node = "code_reviewer"
           /\ second_last_state.node = "code_gen"
           /\ "code" \in DOMAIN second_last_state.update

C6_Witness ==
    /\ Terminated /\ NeverApproved
    /\ Len(states) > 3
    /\ second_last_state.node = "code_gen"

\* C7: after Research, content holds at most 3 x 2 = 6 entries: Research
\* issues at most three Search calls, each with result limit 2.
C7_ContentAtMostSix ==
    Completed("research") = 1
        => /\ calls.search <= PromptedQueries
           /\ Len(content) <= PromptedQueries * max_results

\* C8: a DecodingError of the structured call in Research aborts the run:
\* no Generate, no Review, no snapshot, no second attempt, no artifact.
C8_DecodingErrorAborts ==
    /\ [](error = "DecodingError"
            => /\ calls.code_gen = 0 /\ calls.code_reviewer = 0
               /\ calls.research = 1 /\ calls.structured = 1 /\ calls.search = 0
               /\ states = <<>>
               /\ code = <<>>)
    /\ [][error # "DecodingError"]_vars

C8_Witness ==
    error = "DecodingError" /\ pc = "research"

\* C9: a ProviderError of a Search call or of the completion call in
\* Generate or Review aborts the run at that step: the step emits no
\* snapshot and updates no state field, nothing runs after it, the call is
\* not made again, and the snapshots emitted before stay as they were.
C9_ProviderErrorAborts ==
    /\ [][(error = "none" /\ error' = "ProviderError")
            => UNCHANGED <<state_vars, states, pc>>]_vars
    /\ [][error # "ProviderError"]_vars
    /\ [](error = "ProviderError" => calls[pc] = Completed(pc) + 1)

C9_Witness ==
    error = "ProviderError" /\ pc = "code_reviewer" /\ Len(states) = 4

\* a fence in r: the opener at i, its interior, the first closing back-ticks at j
IsFence(r, i, j) ==
    /\ i >= 1 /\ i + 2 < j /\ j <= Len(r)
    /\ r[i] = "BACKTICKS" /\ r[i + 1] = "hcl" /\ r[i + 2] = "\n"
    /\ r[j] = "BACKTICKS"
    /\ \A k \in (i + 3)..(j - 1) : r[k] # "BACKTICKS"

\* the first fence of r
FirstFence(r, i, j) ==
    /\ IsFence(r, i, j)
    /\ \A i2 \in 1..(i - 1) : \A j2 \in 1..Len(r) : ~IsFence(r, i2, j2)

\* t is s without its leading and trailing whitespace
IsTrimOf(t, s) ==
    /\ \E a \in 0..Len(s) : \E b \in a..Len(s) :
        /\ t = SubSeq(s, a + 1, b)
        /\ \A k \in 1..a : s[k] \in Whitespace
        /\ \A k \in (b + 1)..Len(s) : s[k] \in Whitespace
    /\ t # <<>> => (t[1] \notin Whitespace /\ t[Len(t)] \notin Whitespace)

\* C10: when the Generate response contains a block fenced by the back-ticks
\* tagged hcl, the new code is exactly the interior of that (first) fence
\* without its leading and trailing whitespace; nothing outside is kept.
C10_FencedInterior ==
    Completed("code_gen") = 1
        => \A i \in 1..Len(gen_response) : \A j \in 1..Len(gen_response) :
            FirstFence(gen_response, i, j)
                => IsTrimOf(code, SubSeq(gen_response, i + 3, j - 1))

C10_Witness ==
    /\ Completed("code_gen") = 1
    /\ gen_response = <<"x", "BACKTICKS", "hcl", "\n", "x", "BACKTICKS">>
    /\ code = <<"x">>

\* r holds no fence
NoFence(r) == \A i \in 1..Len(r) : \A j \in 1..Len(r) : ~IsFence(r, i, j)

\* C11: when the Generate response holds no block fenced by the back-ticks
\* tagged hcl, Generate still runs to its end (every response is accepted),
\* the new code is the whole response without its leading and trailing
\* whitespace, and revision_number has grown by 1.
C11_UnfencedFallback ==
    /\ Running("code_gen") => \A resp \in BoundedTexts : ENABLED CodeGenWith(resp)
    /\ (Completed("code_gen") = 1 /\ NoFence(gen_response))
        => /\ error = "none"
           /\ IsTrimOf(code, gen_response)
           /\ revision_number = initial_state.revision_number + 1
           /\ second_last_state.node = "research"
           /\ final_state = Snapshot("code_gen", [code |-> code, revision_number |-> 1])

C11_Witness ==
    /\ Completed("code_gen") = 1
    /\ gen_response = <<"BACKTICKS", "hcl", "\n", "x", "\n">>
    /\ code = <<"BACKTICKS", "hcl", "\n", "x">>
    /\ revision_number = 1

\* C12: two runs, each with its own state, whose steps interleave in any
\* order share no mutable state: every field of each run (content, code,
\* critique, revision_number, ...) and the node it is routed to are what the
\* run has when it executes alone with the same answers of the clients.
C12_RunsIndependent ==
    \A r \in DOMAIN runs :
        View(heap, runs[r]) = Alone(runs[r].task, runs[r].max_revisions, runs[r].inputs)

C12_Witness ==
    /\ Len(runs) = 2
    /\ runs[1].pc = END /\ runs[2].pc = END
    /\ heap[runs[1].content] # <<>> /\ heap[runs[2].content] # <<>>
    /\ runs[1].revision_number = 2 /\ runs[2].revision_number = 1

\* C13: after a Review, the routing function returns "code_gen" (loop back to
\* Generate) if and only if revision_number <= max_revisions and the critique
\* does not contain "The code is valid" letter for letter; in every other case
\* it returns END.  Routing changes no field of the state: after the step the
\* state is the one before it with the critique of the Review's update.
C13_RoutingDecision ==
    [][(calls'.code_reviewer = calls.code_reviewer + 1 /\ error' = "none")
        => /\ (pc' = "code_gen")
                <=> (revision_number <= max_revisions /\ ~Contains(Approval, critique'))
           /\ pc' # "code_gen" => pc' = END
           /\ <<task, content, code, revision_number, max_revisions>>'
                = <<task, content, code, revision_number, max_revisions>>
           /\ critique' = final_state'.update.critique]_vars

C13_Witness ==
    /\ Completed("code_reviewer") = revision_number
    /\ revision_number < max_revisions
    /\ critique = <<"the", " ", "code", " ", "is", " ", "valid">>
    /\ pc = "code_gen"

\* C14: each step changes only its own output fields: a Research call
\* changes at most content, a Generate call at most code and revision_number,
\* a Review call at most critique; task and max_revisions are changed by no
\* step, and content is changed by no Generate or Review call.
C14_Frame ==
    [][/\ task' = task /\ max_revisions' = max_revisions
       /\ calls'.research # calls.research
            => UNCHANGED <<code, critique, revision_number>>
       /\ calls'.code_gen # calls.code_gen
            => UNCHANGED <<content, critique>>
       /\ calls'.code_reviewer # calls.code_reviewer
            => UNCHANGED <<content, code, revision_number>>
       /\ (calls'.research = calls.research /\ calls'.code_gen = calls.code_gen
           /\ calls'.code_reviewer = calls.code_reviewer)
            => UNCHANGED state_vars]_vars

C14_Witness ==
    /\ Completed("code_reviewer") = 2
    /\ task = TheTask
    /\ Len(content) = 2
    /\ code = <<"bucket_with_tags">>
    /\ critique = <<"Add", " ", "tags", ".">>

\* C17: when the run has ended through END, the latest critique contains
\* "The code is valid" or revision_number = max_revisions + 1; and in every
\* reachable state 0 <= revision_number <= max_revisions + 1.
C17_TerminationCause ==
    /\ Terminated
        => \/ Contains(Approval, critique)
           \/ revision_number = max_revisions + 1
    /\ 0 <= revision_number /\ revision_number <= max_revisions + 1

C17_Witness ==
    /\ Terminated
    /\ ~Contains(Approval, critique)
    /\ critique = <<>>
    /\ revision_number = max_revisions + 1
    /\ max_revisions = 2

\* C18: Generate and Review alternate: in the caller's list a code_gen update
\* is followed by a code_reviewer update and a code_reviewer update by a
\* code_gen update; the number of completed Review calls is the number of
\* completed Generate calls or one less, and the two are equal when the run
\* has ended through END.
C18_GenerateReviewAlternate ==
    /\ \A i \in 1..(Len(states) - 1) :
        /\ states[i].node = "code_gen" => states[i + 1].node = "code_reviewer"
        /\ states[i].node = "code_reviewer" => states[i + 1].node = "code_gen"
    /\ Completed("code_reviewer") \in {Completed("code_gen"), Completed("code_gen") - 1}
    /\ Terminated => Completed("code_reviewer") = Completed("code_gen")

C18_Witness ==
    /\ Terminated
    /\ Completed("code_gen") = 3
    /\ Completed("code_reviewer") = 3
    /\ Contains(Approval, critique)

\* the prompt holds the instruction block about a previous critique
HasCritiqueBlock(prompt) == Contains(<<"Previous critique: ">>, prompt.tail)

\* the prompt ends with the block that quotes the critique c word for word
QuotesCritique(prompt, c) ==
    prompt.tail = <<"\n", "\n", "Previous critique: ">> \o c
                  \o <<"\n", "Please address the issues mentioned.">>

\* code_gen_node has just built its prompt: critique is still the one it read
JustGenerated == pc = "code_reviewer" \/ (pc = "code_gen" /\ error # "none")

\* C15 as stated: the prompt of a Generate call holds the critique block if
\* and only if the call is not the first Generate call of the run.
C15_BlockIffRevisionPass ==
    JustGenerated => (HasCritiqueBlock(gen_prompt) <=> calls.code_gen >= 2)

\* C15: the prompt of a Generate call holds the critique block if and only if
\* the critique in the state is not empty, and the block then quotes that
\* critique, the one the preceding Review returned, word for word; the prompt
\* of the first Generate call of a run holds no block, and neither does the
\* prompt of a later call whose preceding Review returned an empty critique.
C15_BlockIffCritique ==
    JustGenerated
        => /\ HasCritiqueBlock(gen_prompt) <=> critique # <<>>
           /\ critique # <<>>
                => /\ QuotesCritique(gen_prompt, critique)
                   /\ calls.code_gen >= 2
                   /\ critique \in Critiques
                   /\ \E i \in DOMAIN states :
                        /\ states[i] = Snapshot("code_reviewer", [critique |-> critique])
                        /\ \A k \in (i + 1)..Len(states) : states[k].node = "code_gen"
           /\ calls.code_gen = 1 => gen_prompt.tail = <<>>
           /\ gen_prompt.task = task

C15_Witness ==
    /\ pc = "code_reviewer"
    /\ calls.code_gen = 2
    /\ gen_prompt.tail = <<"\n", "\n", "Previous critique: ", "Add", " ", "tags", ".",
                           "\n", "Please address the issues mentioned.">>

\* the number of snippets the provider returned for the queries before the k-th
RECURSIVE Before(_)
Before(k) == IF k = 1 THEN 0 ELSE Before(k - 1) + Len(search_log[k - 1])

\* C16: after Research, content is the snippets in query order and, within a
\* query, in the order the provider returned them: the i-th result of the
\* k-th Search call is at the place after all results of the calls before and
\* the i - 1 results before it, and content holds nothing else.
C16_ContentOrder ==
    Completed("research") = 1
        => /\ Len(content) = Before(Len(search_log) + 1)
           /\ \A k \in DOMAIN search_log :
                /\ \A i \in DOMAIN search_log[k] :
                    /\ content[Before(k) + i] = search_log[k][i].content
                    /\ search_log[k][i].content = <<QueryPool[k], i>>

C16_Witness ==
    /\ Completed("research") = 1
    /\ Len(search_log) = 3
    /\ content = << <<"Terraform S3", 1>>, <<"Terraform S3", 2>>, <<"Terraform VPC", 1>> >>

\* C19: when the reviewer's update is the last of the caller's list, so at
\* every routing and at the end through END, critique is the reviewer's
\* answer to the prompt that held the current code, which is the code of the
\* last code_gen update; and the code of the second-to-last update is the
\* code field of the state.
C19_CritiqueOfCurrentCode ==
    /\ (states # <<>> /\ final_state.node = "code_reviewer")
        => /\ critique = final_state.update.critique
           /\ review_prompt = [template |-> "CODE_REVIEW_PROMPT", task |-> task, code |-> code]
           /\ second_last_state.node = "code_gen"
           /\ second_last_state.update.code = code
    /\ Terminated
        => /\ final_state.node = "code_reviewer"
           /\ second_last_state.update.code = code

C19_Witness ==
    /\ Terminated
    /\ Completed("code_gen") = 2
    /\ states[2].update.code = <<"bucket">>
    /\ code = <<"bucket_with_tags">>
    /\ review_prompt.code = <<"bucket_with_tags">>
    /\ Contains(Approval, critique)

====
